---- MODULE Spec2Model ----
(***************************************************************************)
(* Model of lib/ansible/plugins/action/win_updates.py: ActionModule.run,   *)
(* the reboot-aware loop around the win_updates module, together with      *)
(* _validate_categories, _reboot_server and _merge_dict.                   *)
(*                                                                         *)
(* Python dicts are functions whose DOMAIN is the set of keys present.     *)
(* Python strings built by formatting are sequences of string fragments.   *)
(* Python None is the string "None" where a string is expected.            *)
(***************************************************************************)
EXTENDS Integers, Sequences, FiniteSets, TLC

\* ------------------------------------------------------------------ bounds
\* largest per-cycle update count the worker reports
MaxCount == 1
\* a further cycle reports updates while the two aggregate counts together
\* stay within this
MaxSum == 2
\* the cycle and reboot counters saturate here ("this many or more")
MaxCycles == 3

\* ------------------------------------------------------- program constants
DEFAULT_REBOOT_TIMEOUT == 1200

valid_categories ==
    << "Application", "Connectors", "CriticalUpdates", "DefinitionUpdates",
       "DeveloperKits", "FeaturePacks", "Guidance", "SecurityUpdates",
       "ServicePacks", "Tools", "UpdateRollups", "Updates" >>

\* ','.join(valid_categories)
valid_categories_joined ==
    "Application,Connectors,CriticalUpdates,DefinitionUpdates,DeveloperKits,FeaturePacks,Guidance,SecurityUpdates,ServicePacks,Tools,UpdateRollups,Updates"

default_category_names == << "CriticalUpdates", "SecurityUpdates", "UpdateRollups" >>

REBOOT_BEFORE_MSG == << "A reboot is required before more updates can be installed" >>

\* ------------------------------------------------------------ dict helpers
EmptyDict == [k \in {} |-> 0]

Has(d, k) == k \in DOMAIN d

\* d.get(k, default)
Get(d, k, default) == IF k \in DOMAIN d THEN d[k] ELSE default

\* d[k] = v
SetKey(d, k, v) == [x \in DOMAIN d \cup {k} |-> IF x = k THEN v ELSE d[x]]

merge_dict_keep_original(original, new) ==
    [k \in DOMAIN original \cup DOMAIN new |->
        IF k \in DOMAIN original THEN original[k] ELSE new[k]]

\* original.copy(); update(new)
merge_dict(original, new) ==
    [k \in DOMAIN original \cup DOMAIN new |->
        IF k \in DOMAIN new THEN new[k] ELSE original[k]]

\* -------------------------------------------------------------- the inputs
UpdateIds == {"KB1", "KB2"}
FilteredIds == {"KB3"}
UpdateMeta == {"v1", "v2"}
AllIds == UpdateIds \cup FilteredIds

\* the mappings from update id to metadata over a set of ids
DictsOver(ids) == UNION {[S -> UpdateMeta] : S \in SUBSET ids}

Opt(k, S) == {EmptyDict} \cup {k :> v : v \in S}

OTHER_MSG == << "Failed to search for updates" >>

\* an error message on a result that did not fail
UnfailedError(r) == ~Has(r, "failed") /\ Has(r, "msg") /\ r["msg"] = OTHER_MSG

\* Raw results of one win_updates module run: changed is always there, every
\* other key may be missing.  CycleResults varies everything the control flow
\* reads and reports no update mappings.
AnyCycleResults ==
    { ("changed" :> c) @@ fc @@ ic @@ rr @@ fl @@ m :
        c  \in BOOLEAN,
        fc \in Opt("found_update_count", 0..MaxCount),
        ic \in Opt("installed_update_count", 0..MaxCount),
        rr \in Opt("reboot_required", BOOLEAN),
        fl \in Opt("failed", {TRUE}),
        m  \in Opt("msg", {REBOOT_BEFORE_MSG, OTHER_MSG}) }


CycleResults == { r \in AnyCycleResults : ~UnfailedError(r) }

\* MergeResults varies the update mappings over a few kinds of cycle: more to
\* do, nothing left, reboot pending, failed, and a result without counts.
MergeFlags ==
    { [changed |-> TRUE, found_update_count |-> 1,
       installed_update_count |-> 0, reboot_required |-> FALSE],
      [changed |-> FALSE, found_update_count |-> 0,
       installed_update_count |-> 0, reboot_required |-> FALSE],
      [changed |-> FALSE, found_update_count |-> 0,
       installed_update_count |-> 0, reboot_required |-> TRUE],
      [changed |-> FALSE, found_update_count |-> 1,
       installed_update_count |-> 0, reboot_required |-> FALSE,
       failed |-> TRUE, msg |-> OTHER_MSG],
      [changed |-> TRUE] }

MergeResults ==
    { x @@ u @@ f :
        x \in MergeFlags,
        u \in Opt("updates", DictsOver(UpdateIds)),
        f \in Opt("filtered_updates", DictsOver(FilteredIds)) }

\* results of the win_reboot and wait_for_connection action plugins
PluginResults ==
    { EmptyDict, [failed |-> FALSE],
      [failed |-> TRUE, msg |-> << "timed out waiting for the host" >>],
      [failed |-> TRUE, msg |-> << "connection refused" >>] }

\* task arguments
CategoryArgs == { default_category_names, << "Updates", "Drivers" >> }
StateArgs == { "installed", "searched", "absent" }
RebootArgs == { [type |-> "bool", repr |-> "False"],
                [type |-> "str", repr |-> "yes"],
                [type |-> "str", repr |-> "maybe"] }
TimeoutArgs == { [type |-> "int", repr |-> "1200"],
                 [type |-> "str", repr |-> "20m"] }
AsyncVals == { 0, 45 }

\* acting identities of the connection before the run
DefaultIdentity ==
    [become |-> "None", become_method |-> "None", become_user |-> "None"]
Identities ==
    { DefaultIdentity,
      [become |-> "True", become_method |-> "runas", become_user |-> "admin"],
      [become |-> "False", become_method |-> "sudo", become_user |-> "root"] }

\* --------------------------------------------------------- pure functions
\* _validate_categories: the name it raises on, "None" when it returns
validate_categories(category_names) ==
    LET known == {valid_categories[i] : i \in 1..Len(valid_categories)}
        bad == {i \in 1..Len(category_names) : category_names[i] \notin known}
    IN  IF bad = {} THEN "None"
        ELSE category_names[CHOOSE i \in bad : \A j \in bad : i <= j]

unknown_category_msg(name) ==
    << "Unknown category_name ", name, ", must be one of (",
       valid_categories_joined, ")" >>

BOOLEANS_TRUE == {"y", "yes", "on", "1", "true", "t"}
BOOLEANS_FALSE == {"n", "no", "off", "0", "false", "f"}

\* boolean(): "True", "False", or "TypeError"
boolean(value) ==
    IF value.type = "bool" THEN value.repr
    ELSE IF value.repr \in BOOLEANS_TRUE THEN "True"
    ELSE IF value.repr \in BOOLEANS_FALSE THEN "False"
    ELSE "TypeError"

validation_error_async_allowed(args, async_val) ==
    IF validate_categories(args.category_names) # "None"
        THEN unknown_category_msg(validate_categories(args.category_names))
    ELSE IF args.state \notin {"installed", "searched"}
        THEN << "state must be either installed or searched" >>
    ELSE IF boolean(args.reboot) = "TypeError"
        THEN << "cannot parse reboot as a boolean: ", args.reboot.repr >>
    ELSE IF args.reboot_timeout.type # "int"
        THEN << "reboot_timeout must be an integer" >>
    ELSE << >>

\* the message of the first failing option check, << >> when all pass
validation_error(args, async_val) ==
    IF validate_categories(args.category_names) # "None"
        THEN unknown_category_msg(validate_categories(args.category_names))
    ELSE IF args.state \notin {"installed", "searched"}
        THEN << "state must be either installed or searched" >>
    ELSE IF boolean(args.reboot) = "TypeError"
        THEN << "cannot parse reboot as a boolean: ", args.reboot.repr >>
    ELSE IF args.reboot_timeout.type # "int"
        THEN << "reboot_timeout must be an integer" >>
    ELSE IF boolean(args.reboot) = "True" /\ async_val > 0
        THEN << "async is not supported for this task when reboot=yes" >>
    ELSE << >>

\* the while condition raises KeyError (evaluated left to right)
while_keyerror(r) ==
    IF ~Has(r, "installed_update_count") THEN TRUE
    ELSE IF r["installed_update_count"] > 0 THEN FALSE
    ELSE IF ~Has(r, "found_update_count") THEN TRUE
    ELSE IF r["found_update_count"] > 0 THEN FALSE
    ELSE ~Has(r, "reboot_required")

while_condition_ignores_found(r) ==
    IF r["installed_update_count"] > 0 THEN TRUE
    ELSE Get(r, "reboot_required", FALSE) = TRUE

while_condition_retries_failed(r) ==
    IF Get(r, "failed", FALSE) THEN TRUE
    ELSE IF r["installed_update_count"] > 0 THEN TRUE
    ELSE IF r["found_update_count"] > 0 THEN TRUE
    ELSE r["reboot_required"] = TRUE

while_condition_nonneg(r) ==
    IF r["installed_update_count"] > 0 THEN TRUE
    ELSE IF r["found_update_count"] >= 0 THEN TRUE
    ELSE r["reboot_required"] = TRUE

\* the while condition of lines 199-201
while_condition(r) ==
    IF r["installed_update_count"] > 0 THEN TRUE
    ELSE IF r["found_update_count"] > 0 THEN TRUE
    ELSE r["reboot_required"] = TRUE

guard_breaks_at_once(r, prev) == Get(r, "failed", FALSE)

guard_never_breaks(r, prev) == FALSE

\* the failure guard breaks out of the loop
guard_breaks(r, prev) == Get(r, "failed", FALSE) /\ prev

reboot_error_flag_only(r) ==
    IF Get(r, "reboot_required", FALSE)
        THEN "reboot was required to finalise update install"
    ELSE "None"

\* reboot_error after lines 214-224
reboot_error(r) ==
    IF Get(r, "msg", << "" >>) = REBOOT_BEFORE_MSG
        THEN "reboot was required before more updates can be installed"
    ELSE IF Get(r, "reboot_required", FALSE)
        THEN "reboot was required to finalise update install"
    ELSE "None"

reboot_due_either(r) ==
    Get(r, "reboot_required", FALSE) \/ Get(r, "msg", << "" >>) = REBOOT_BEFORE_MSG

\* the loop body reboots
reboot_due(r) == Get(r, "reboot_required", FALSE)

reboot_failed_msg(reason, exc) ==
    << "Failed to reboot remote host when ", reason, ": " >> \o exc

add_count_assign(total, r, key) == Get(r, key, 0)

\* lines 244-245: total += result.get(key, 0)
add_count(total, r, key) == total + Get(r, key, 0)

or_changed_assign(chg, r) == r["changed"]

\* lines 246-247: if result['changed']: changed = True
or_changed(chg, r) == IF r["changed"] THEN TRUE ELSE chg

plugin_failed_never(plugin_result) == FALSE

\* lines 58 and 103: the plugin's result says it failed, AnsibleError is raised
plugin_failed(plugin_result) == Get(plugin_result, "failed", FALSE)

elevated_user_if_unset(ctx) ==
    [ctx EXCEPT
        !.become = IF @ = "None" \/ @ = "False" THEN "True" ELSE @,
        !.become_method = IF @ # "runas" THEN "runas" ELSE @,
        !.become_user = IF @ = "None" \/ @ = "root" THEN "SYSTEM" ELSE @]

\* lines 78-83: the identity the probe runs under
elevated(ctx) ==
    [ctx EXCEPT
        !.become = IF @ = "None" \/ @ = "False" THEN "True" ELSE @,
        !.become_method = IF @ # "runas" THEN "runas" ELSE @,
        \* "orig_become_user is None or 'root'" is always true
        !.become_user = "SYSTEM"]

restored_without_user(ctx, become, become_method, become_user) ==
    [ctx EXCEPT !.become = become, !.become_method = become_method]

\* lines 93-96: the finally clause
restored(ctx, become, become_method, become_user) ==
    [ctx EXCEPT !.become = become,
                !.become_method = become_method,
                !.become_user = become_user]

after_probe_propagates(outcome) ==
    IF outcome = "raised" THEN "raised" ELSE "wait_for_connection"

\* lines 84-98: where _reboot_server goes on after the probe ended with
\* outcome "ok", "failed" (a failed result) or "raised" (an exception)
after_probe(outcome) == "wait_for_connection"

rerun_result_update(old, r) ==
    merge_dict([k \in DOMAIN old \ {"msg"} |-> old[k]], r)

\* lines 235-237: result.pop('msg', None); result = self._run_win_updates()
rerun_result(old, r) == r

Sat(n) == IF n < MaxCycles THEN n + 1 ELSE n

\* ------------------------------------------------------------------ state
VARIABLES
    task,                    \* self._task: args and async_val
    play_context,            \* self._play_context
    state, reboot,           \* locals of run()
    result, changed, updates, filtered_updates,
    found_update_count, installed_update_count,
    previously_errored,
    \* locals of _reboot_server, "None" outside its frame
    shell_result, orig_become, orig_become_method, orig_become_user,
    pc,                      \* position in run()
    \* history
    ncycles,                 \* win_updates module runs
    nreboots,                \* win_reboot calls
    issued,                  \* plugins and modules ever run
    any_changed,             \* some cycle reported changed
    sum_found, sum_installed,\* sums of the cycles' counts
    last_updates, last_filtered, \* latest reported value of every key
    consec_failed,           \* failed cycles in a row up to now (0, 1, 2)
    all_failed,              \* every cycle so far failed
    first_idle,              \* first cycle: nothing found, installed, pending
    last_raw,                \* the latest cycle's result as the module gave it
    reboot_failure,          \* message of the plugin that failed the reboot
    call_log,                \* the latest _reboot_server call: what it ran
    orig_identity            \* the identity before the run

frame == << shell_result, orig_become, orig_become_method, orig_become_user >>
aggregate == << changed, updates, filtered_updates, found_update_count,
                installed_update_count >>
prog_vars == << task, play_context, state, reboot, result, aggregate,
                previously_errored, frame, pc >>
cycle_hist == << ncycles, any_changed, sum_found, sum_installed, last_updates,
                 last_filtered, consec_failed, all_failed, first_idle,
                 last_raw >>
hist_vars == << cycle_hist, nreboots, issued, reboot_failure, call_log,
               orig_identity >>
vars == << prog_vars, hist_vars >>

Tasks ==
    { [args |-> [category_names |-> c, state |-> s, reboot |-> r,
                 reboot_timeout |-> t],
       async_val |-> a] :
      c \in CategoryArgs, s \in StateArgs, r \in RebootArgs,
      t \in TimeoutArgs, a \in AsyncVals }

InitWith(identities) ==
    /\ task \in Tasks
    /\ play_context \in { [check_mode |-> cm, become |-> i.become,
                           become_method |-> i.become_method,
                           become_user |-> i.become_user] :
                          cm \in BOOLEAN, i \in identities }
    /\ state = "installed"
    /\ reboot = FALSE
    /\ result = EmptyDict
    /\ changed = FALSE
    /\ updates = EmptyDict
    /\ filtered_updates = EmptyDict
    /\ found_update_count = 0
    /\ installed_update_count = 0
    /\ previously_errored = FALSE
    /\ shell_result = "None"
    /\ orig_become = "None"
    /\ orig_become_method = "None"
    /\ orig_become_user = "None"
    /\ pc = "validate"
    /\ ncycles = 0
    /\ nreboots = 0
    /\ issued = {}
    /\ any_changed = FALSE
    /\ sum_found = 0
    /\ sum_installed = 0
    /\ last_updates = [k \in AllIds |-> "None"]
    /\ last_filtered = [k \in AllIds |-> "None"]
    /\ consec_failed = 0
    /\ all_failed = TRUE
    /\ first_idle = FALSE
    /\ last_raw = EmptyDict
    /\ reboot_failure = << >>
    /\ call_log = << >>
    /\ orig_identity = [become |-> play_context.become,
                        become_method |-> play_context.become_method,
                        become_user |-> play_context.become_user]

Init == InitWith({DefaultIdentity})

\* the latest value reported for every id ("None": never reported), after
\* one more mapping
LastWrite(seen, new) ==
    [k \in AllIds |-> IF k \in DOMAIN new THEN new[k] ELSE seen[k]]

\* the bookkeeping of one more worker cycle with raw result r
RecordCycle(r) ==
    /\ ncycles' = Sat(ncycles)
    /\ issued' = issued \cup {"win_updates"}
    /\ any_changed' = (any_changed \/ r["changed"])
    /\ sum_found' = sum_found + Get(r, "found_update_count", 0)
    /\ sum_installed' = sum_installed + Get(r, "installed_update_count", 0)
    /\ last_updates' = LastWrite(last_updates, Get(r, "updates", EmptyDict))
    /\ last_filtered' =
         LastWrite(last_filtered, Get(r, "filtered_updates", EmptyDict))
    /\ consec_failed' =
         IF Get(r, "failed", FALSE)
         THEN (IF consec_failed < 2 THEN consec_failed + 1 ELSE 2)
         ELSE 0
    /\ all_failed' = (all_failed /\ Get(r, "failed", FALSE))
    /\ first_idle' =
         IF ncycles = 0
         THEN /\ Get(r, "found_update_count", 1) = 0
              /\ Get(r, "installed_update_count", 1) = 0
              /\ Get(r, "reboot_required", TRUE) = FALSE
         ELSE first_idle
    /\ last_raw' = r

reboot_handling_in_check_mode(rb, st, check_mode) ==
    rb /\ st = "installed"

\* reboot handling is on (lines 196-197)
reboot_handling(rb, st, check_mode) ==
    rb /\ st = "installed" /\ ~check_mode

\* ---------------------------------------------------------------- actions
\* lines 139-181, an option check fails
ValidateFail ==
    /\ pc = "validate"
    /\ validation_error(task.args, task.async_val) # << >>
    /\ result' = [failed |-> TRUE,
                  msg |-> validation_error(task.args, task.async_val)]
    /\ pc' = "done"
    /\ UNCHANGED << task, play_context, state, reboot, aggregate,
                    previously_errored, frame, hist_vars >>

\* lines 139-181, all option checks pass
ValidateOk ==
    /\ pc = "validate"
    /\ validation_error(task.args, task.async_val) = << >>
    /\ state' = task.args.state
    /\ reboot' = (boolean(task.args.reboot) = "True")
    /\ pc' = "run_module"
    /\ UNCHANGED << task, play_context, result, aggregate, previously_errored,
                    frame, hist_vars >>

\* lines 184-198: the first module run, the worker answering from R
RunWinUpdates(R) ==
    /\ pc = "run_module"
    /\ \E r \in R :
        /\ result' = r
        /\ changed' = r["changed"]
        /\ updates' = Get(r, "updates", EmptyDict)
        /\ filtered_updates' = Get(r, "filtered_updates", EmptyDict)
        /\ found_update_count' = Get(r, "found_update_count", 0)
        /\ installed_update_count' = Get(r, "installed_update_count", 0)
        /\ RecordCycle(r)
    /\ previously_errored' = FALSE
    /\ pc' = IF reboot_handling(reboot, state, play_context.check_mode)
             THEN "loop" ELSE "finish"
    /\ UNCHANGED << task, play_context, state, reboot, frame, nreboots,
                    reboot_failure, call_log, orig_identity >>

\* lines 199-201: a key the while condition reads is missing
LoopKeyError ==
    /\ pc = "loop"
    /\ while_keyerror(result)
    /\ pc' = "raised"
    /\ UNCHANGED << task, play_context, state, reboot, result, aggregate,
                    previously_errored, frame, hist_vars >>

\* lines 199-201: the while condition is false
LoopExit ==
    /\ pc = "loop"
    /\ ~while_keyerror(result)
    /\ ~while_condition(result)
    /\ pc' = "finish"
    /\ UNCHANGED << task, play_context, state, reboot, result, aggregate,
                    previously_errored, frame, hist_vars >>

\* lines 207-209: second failure in a row
LoopBreak ==
    /\ pc = "loop"
    /\ ~while_keyerror(result)
    /\ while_condition(result)
    /\ guard_breaks(result, previously_errored)
    /\ pc' = "finish"
    /\ UNCHANGED << task, play_context, state, reboot, result, aggregate,
                    previously_errored, frame, hist_vars >>

\* lines 207-226: the loop body up to the call of _reboot_server
LoopBody ==
    /\ pc = "loop"
    /\ ~while_keyerror(result)
    /\ while_condition(result)
    /\ ~guard_breaks(result, previously_errored)
    /\ previously_errored' = Get(result, "failed", FALSE)
    /\ IF reboot_due(result)
       THEN changed' = TRUE /\ pc' = "win_reboot"
       ELSE changed' = changed /\ pc' = "rerun"
    /\ UNCHANGED << task, play_context, state, reboot, result, updates,
                    filtered_updates, found_update_count,
                    installed_update_count, frame, hist_vars >>

\* the except clause of lines 228-233
reboot_exception(exc) ==
    /\ result' = SetKey(SetKey(result, "failed", TRUE), "msg",
                        reboot_failed_msg(reboot_error(result), exc))
    /\ pc' = "finish"
    /\ reboot_failure' = exc

\* what a plugin's result says
Outcome(plugin_result) ==
    IF Has(plugin_result, "failed") /\ plugin_result["failed"] = TRUE
    THEN "failed" ELSE "ok"

\* the entry of the call log for a plugin that returned plugin_result
Ran(plugin, plugin_result) ==
    << plugin, Outcome(plugin_result), Get(plugin_result, "msg", << >>) >>

\* lines 52-59: the win_reboot action plugin
WinReboot ==
    /\ pc = "win_reboot"
    /\ \E reboot_result \in PluginResults :
        /\ IF plugin_failed(reboot_result)
           THEN reboot_exception(reboot_result["msg"])
           ELSE result' = result /\ pc' = "elevate" /\ UNCHANGED reboot_failure
        /\ call_log' = << Ran("win_reboot", reboot_result) >>
    /\ nreboots' = Sat(nreboots)
    /\ issued' = issued \cup {"win_reboot"}
    /\ UNCHANGED << task, play_context, state, reboot, aggregate,
                    previously_errored, frame, cycle_hist, orig_identity >>

\* lines 75-83: save the identity and switch to the elevated one
Elevate ==
    /\ pc = "elevate"
    /\ orig_become' = play_context.become
    /\ orig_become_method' = play_context.become_method
    /\ orig_become_user' = play_context.become_user
    /\ play_context' = elevated(play_context)
    /\ pc' = "win_shell"
    /\ UNCHANGED << task, state, reboot, result, aggregate, previously_errored,
                    shell_result, hist_vars >>

\* lines 84-96: the busy probe; its result or exception is only logged, the
\* finally clause puts the saved identity back
WinShell ==
    /\ pc = "win_shell"
    /\ shell_result' \in {"ok", "failed", "raised"}
    /\ play_context' = restored(play_context, orig_become, orig_become_method,
                                orig_become_user)
    /\ issued' = issued \cup {"win_shell"}
    /\ call_log' = Append(call_log, << "win_shell", "run", << >> >>)
    /\ pc' = after_probe(shell_result')
    /\ UNCHANGED << task, state, reboot, result, aggregate, previously_errored,
                    orig_become, orig_become_method, orig_become_user,
                    cycle_hist, nreboots, reboot_failure, orig_identity >>

\* lines 98-104: the wait_for_connection action plugin, then the frame of
\* _reboot_server is left
WaitForConnection ==
    /\ pc = "wait_for_connection"
    /\ \E wait_for_result \in PluginResults :
        /\ IF plugin_failed(wait_for_result)
           THEN reboot_exception(wait_for_result["msg"])
           ELSE result' = result /\ pc' = "rerun" /\ UNCHANGED reboot_failure
        /\ call_log' =
             Append(call_log, Ran("wait_for_connection", wait_for_result))
    /\ shell_result' = "None"
    /\ orig_become' = "None"
    /\ orig_become_method' = "None"
    /\ orig_become_user' = "None"
    /\ issued' = issued \cup {"wait_for_connection"}
    /\ UNCHANGED << task, play_context, state, reboot, aggregate,
                    previously_errored, cycle_hist, nreboots, orig_identity >>

\* lines 235-247: run the module again, the worker answering from R, and
\* merge its result
Rerun(R) ==
    /\ pc = "rerun"
    /\ \E r \in R :
        /\ found_update_count + installed_update_count
             + Get(r, "found_update_count", 0)
             + Get(r, "installed_update_count", 0) <= MaxSum
        /\ result' = rerun_result(result, r)
        /\ updates' = merge_dict(updates, Get(r, "updates", EmptyDict))
        /\ filtered_updates' =
             merge_dict(filtered_updates, Get(r, "filtered_updates", EmptyDict))
        /\ found_update_count' =
             add_count(found_update_count, r, "found_update_count")
        /\ installed_update_count' =
             add_count(installed_update_count, r, "installed_update_count")
        /\ changed' = or_changed(changed, r)
        /\ RecordCycle(r)
    /\ pc' = "loop"
    /\ UNCHANGED << task, play_context, state, reboot, previously_errored,
                    frame, nreboots,
                    reboot_failure, call_log, orig_identity >>

\* lines 249-258: build the returned dict
Finish ==
    /\ pc = "finish"
    /\ result' =
         IF task.async_val = 0
         THEN SetKey(SetKey(SetKey(SetKey(SetKey(result,
                "changed", changed),
                "updates", updates),
                "filtered_updates", filtered_updates),
                "found_update_count", found_update_count),
                "installed_update_count", installed_update_count)
         ELSE result
    /\ pc' = "done"
    /\ UNCHANGED << task, play_context, state, reboot, aggregate,
                    previously_errored, frame, hist_vars >>

Next ==
    \/ ValidateFail
    \/ ValidateOk
    \/ RunWinUpdates(CycleResults)
    \/ LoopKeyError
    \/ LoopExit
    \/ LoopBreak
    \/ LoopBody
    \/ WinReboot
    \/ Elevate
    \/ WinShell
    \/ WaitForConnection
    \/ Rerun(CycleResults)
    \/ Finish

Spec == Init /\ [][Next]_vars

\* the same run with the worker reporting update mappings
NextMerge ==
    \/ ValidateFail
    \/ ValidateOk
    \/ RunWinUpdates(MergeResults)
    \/ LoopKeyError
    \/ LoopExit
    \/ LoopBreak
    \/ LoopBody
    \/ WinReboot
    \/ Elevate
    \/ WinShell
    \/ WaitForConnection
    \/ Rerun(MergeResults)
    \/ Finish

SpecMerge == Init /\ [][NextMerge]_vars

\* the results that differ in what the loop test and the failure guard read
LoopResults ==
    { r \in CycleResults :
        /\ r["changed"] = FALSE
        /\ ~Has(r, "msg")
        /\ Get(r, "installed_update_count", 1) = 0 }

NextLive ==
    \/ ValidateFail
    \/ ValidateOk
    \/ RunWinUpdates(LoopResults)
    \/ LoopKeyError
    \/ LoopExit
    \/ LoopBreak
    \/ LoopBody
    \/ WinReboot
    \/ Elevate
    \/ WinShell
    \/ WaitForConnection
    \/ Rerun(LoopResults)
    \/ Finish

\* the run under the scheduling the code has: every call returns, so a step
\* that can be taken is taken
LiveSpec == Init /\ [][NextLive]_vars /\ WF_vars(NextLive)

\* the same run started under every identity the connection may carry
SpecIdentity == InitWith(Identities) /\ [][NextLive]_vars

\* ------------------------------------------------------------------ claims
Failed(r) == Get(r, "failed", FALSE)
SentinelSeen(r) == Has(r, "msg") /\ r["msg"] = REBOOT_BEFORE_MSG
FlagSet(r) == Has(r, "reboot_required") /\ r["reboot_required"] = TRUE
\* a loop iteration that the failure guard lets through: from the loop test
\* either to the reboot or straight to the next module run
Iteration == pc = "loop" /\ pc' \in {"win_reboot", "rerun"}

C3_AlwaysEnds == <>(pc \in {"done", "raised"})

\* a result that makes the loop go round once more
KeepsGoing ==
    /\ pc = "loop"
    /\ ~while_keyerror(result)
    /\ while_condition(result)
    /\ ~(Failed(result) /\ consec_failed = 2)

\* C3 amended: the run ends unless the worker reports, again and again for
\* ever, a result with pending work (installed or found updates, or a pending
\* reboot) that is not a second failure in a row.
C3_EndsUnlessPendingForever ==
    <>(pc \in {"done", "raised"}) \/ []<>KeepsGoing

\* the loop is still going after MaxCycles or more module runs
C3_Witness ==
    /\ pc = "rerun"
    /\ ncycles = MaxCycles
    /\ nreboots = MaxCycles

\* C4: when win_reboot or wait_for_connection has reported failure, the run
\* is at its end, no module run or reboot follows, and the result has failed
\* true and the message "Failed to reboot remote host when <reason>: <plugin
\* message>", the reason telling whether the sentinel was seen.
C4_RebootFailureIsFatal ==
    reboot_failure # << >> =>
        /\ pc \in {"finish", "done"}
        /\ Has(result, "failed") /\ result["failed"] = TRUE
        /\ Has(result, "msg")
        /\ result["msg"] =
             << "Failed to reboot remote host when ",
                IF SentinelSeen(last_raw)
                THEN "reboot was required before more updates can be installed"
                ELSE "reboot was required to finalise update install",
                ": " >> \o reboot_failure

\* a failed reboot after the sentinel was returned
C4_Witness ==
    /\ pc = "done"
    /\ reboot_failure # << >>
    /\ SentinelSeen(last_raw)
    /\ Failed(result)

\* the run got past the option checks, ran the module and returned
Returned == pc = "done" /\ ncycles > 0
Sync == task.async_val = 0

\* C5: for a non-async run the returned changed is true exactly when some
\* cycle reported changed or a reboot was started, and the aggregate changed
\* never goes back from true to false.
C5_ChangedIsOr ==
    /\ [](Returned /\ Sync =>
            result["changed"] = (any_changed \/ nreboots > 0))
    /\ [][changed => changed']_vars

\* changed only because of the reboot
C5_Witness ==
    /\ Returned /\ Sync
    /\ result["changed"]
    /\ ~any_changed
    /\ nreboots > 0

\* C6: for a non-async run the returned found_update_count and
\* installed_update_count are the sums of the field over all cycles run, a
\* missing field counting 0, however the loop ended.
C6_CountsAreSums ==
    Returned /\ Sync =>
        /\ result["found_update_count"] = sum_found
        /\ result["installed_update_count"] = sum_installed

\* found in the first cycle, installed in the second, after a reboot
C6_Witness ==
    /\ Returned /\ Sync
    /\ ncycles = 2
    /\ nreboots = 1
    /\ Get(last_raw, "found_update_count", 1) = 0
    /\ Get(last_raw, "installed_update_count", 0) = 1
    /\ result["found_update_count"] = 1
    /\ result["installed_update_count"] = 1

\* the mapping that has every id ever reported with its latest value
IsLastWrite(d, last) ==
    /\ DOMAIN d = {k \in AllIds : last[k] # "None"}
    /\ \A k \in DOMAIN d : d[k] = last[k]

\* C7: the aggregate and, for a non-async run, the returned updates and
\* filtered_updates have the keys of all cycles run, each with the value of
\* the latest cycle that reported it; a merge never removes a key.
C7_LastWriteWins ==
    /\ [](ncycles > 0 =>
            /\ IsLastWrite(updates, last_updates)
            /\ IsLastWrite(filtered_updates, last_filtered))
    /\ [](Returned /\ Sync =>
            /\ IsLastWrite(result["updates"], last_updates)
            /\ IsLastWrite(result["filtered_updates"], last_filtered))
    /\ [][/\ DOMAIN updates \subseteq DOMAIN updates'
          /\ DOMAIN filtered_updates \subseteq DOMAIN filtered_updates']_vars

\* KB2 is kept from an earlier cycle, KB1 has the last cycle's value
C7_Witness ==
    /\ Returned /\ Sync
    /\ ncycles >= 2
    /\ Has(last_raw, "updates")
    /\ last_raw["updates"] = [k \in {"KB1"} |-> "v2"]
    /\ result["updates"] = [k \in {"KB1", "KB2"} |-> IF k = "KB1" THEN "v2" ELSE "v1"]

\* C8: when the first cycle reports found_update_count 0,
\* installed_update_count 0 and reboot_required false, the module is run
\* exactly once and nothing else is run, whatever else that result says.
C8_IdleFirstCycle ==
    first_idle =>
        /\ ncycles = 1
        /\ nreboots = 0
        /\ issued = {"win_updates"}
        /\ pc \in {"loop", "finish", "done"}

\* reboot handling on, the idle first result failed with the sentinel message
C8_Witness ==
    /\ first_idle
    /\ pc = "done"
    /\ reboot /\ state = "installed" /\ ~play_context.check_mode
    /\ Failed(result)
    /\ SentinelSeen(result)

RebootRequested ==
    \/ task.args.reboot.type = "bool" /\ task.args.reboot.repr = "True"
    \/ task.args.reboot.type = "str" /\ task.args.reboot.repr \in BOOLEANS_TRUE

InvalidInput ==
    \/ \E i \in 1..Len(task.args.category_names) :
         \A j \in 1..Len(valid_categories) :
            task.args.category_names[i] # valid_categories[j]
    \/ task.args.state \notin {"installed", "searched"}
    \/ /\ task.args.reboot.type = "str"
       /\ task.args.reboot.repr \notin BOOLEANS_TRUE \cup BOOLEANS_FALSE
    \/ task.args.reboot_timeout.type # "int"
    \/ RebootRequested /\ task.async_val > 0

NoRebootHandling ==
    \/ ~RebootRequested
    \/ task.args.state = "searched"
    \/ play_context.check_mode

AggregateKeys == {"changed", "updates", "filtered_updates",
                  "found_update_count", "installed_update_count"}

\* C9: with valid options and reboot false, state searched or check mode
\* (async included), the module is run exactly once, no win_reboot, win_shell
\* or wait_for_connection is run, and the returned result is that cycle's
\* result: unmodified for async, otherwise with changed, the two mappings and
\* the two counts of that cycle (empty mapping and 0 for a missing key).
C9_SingleCycle ==
    ~InvalidInput /\ NoRebootHandling =>
        /\ ncycles <= 1
        /\ issued \subseteq {"win_updates"}
        /\ pc = "done" =>
            /\ ncycles = 1
            /\ IF Sync
               THEN /\ DOMAIN result = DOMAIN last_raw \cup AggregateKeys
                    /\ \A k \in DOMAIN last_raw : result[k] = last_raw[k]
                    /\ result["updates"] = Get(last_raw, "updates", EmptyDict)
                    /\ result["filtered_updates"] =
                         Get(last_raw, "filtered_updates", EmptyDict)
                    /\ result["found_update_count"] =
                         Get(last_raw, "found_update_count", 0)
                    /\ result["installed_update_count"] =
                         Get(last_raw, "installed_update_count", 0)
               ELSE result = last_raw

\* check mode with reboot=yes: the cycle asked for a reboot and none was made
C9_Witness ==
    /\ pc = "done"
    /\ ~InvalidInput
    /\ RebootRequested
    /\ task.args.state = "installed"
    /\ play_context.check_mode
    /\ FlagSet(last_raw)
    /\ Has(last_raw, "updates") /\ last_raw["updates"] # EmptyDict

\* C10: with an unknown category name, a state other than installed and
\* searched, an unparsable reboot, a non-integer reboot_timeout, or reboot
\* with async, the module is never run, nothing else is run, and the
\* returned result has failed true and a message.
C10_ValidationFails ==
    InvalidInput =>
        /\ pc \in {"validate", "done"}
        /\ ncycles = 0
        /\ issued = {}
        /\ pc = "done" =>
            /\ Failed(result)
            /\ Has(result, "msg")
            /\ Len(result["msg"]) > 0

\* reboot=yes with async, everything else valid
C10_Witness ==
    /\ pc = "done"
    /\ RebootRequested
    /\ task.async_val > 0
    /\ task.args.state = "installed"
    /\ task.args.reboot_timeout.type = "int"
    /\ task.args.category_names = default_category_names
    /\ Failed(result)
    /\ result["msg"] = << "async is not supported for this task when reboot=yes" >>

\* the identity the connection acts under
Identity(ctx) ==
    [become |-> ctx.become, become_method |-> ctx.become_method,
     become_user |-> ctx.become_user]

\* C11: outside the busy probe the connection acts under the identity it
\* had before _reboot_server was called: during win_reboot, during
\* wait_for_connection, during every win_updates cycle and after the call
\* has ended, whether the probe succeeded or raised and whether win_reboot
\* or wait_for_connection failed.
C11_IdentityRestored ==
    pc # "win_shell" => Identity(play_context) = orig_identity

\* the probe raised under a caller who was root without become
C11_Witness ==
    /\ pc = "wait_for_connection"
    /\ shell_result = "raised"
    /\ orig_identity.become_user = "root"
    /\ Identity(play_context) = orig_identity

\* C12: a busy probe that raised or returned a failed result changes
\* nothing in the result and records no failure; wait_for_connection is
\* issued next, and when it succeeds the module is run again.
C12_ProbeFailureSwallowed ==
    [][ /\ pc = "win_shell"
            => /\ pc' = "wait_for_connection"
               /\ result' = result
               /\ reboot_failure' = reboot_failure
        /\ (pc = "wait_for_connection" /\ shell_result \in {"failed", "raised"})
            => /\ Len(call_log') = Len(call_log) + 1
               /\ call_log'[Len(call_log')][1] = "wait_for_connection"
               /\ call_log'[Len(call_log')][2] = "ok"
                    => (pc' = "rerun" /\ result' = result)
        /\ pc = "rerun" => (pc' = "loop" /\ "win_updates" \in issued')
      ]_vars

\* the probe returned a failed result, the cycle before it had not failed
C12_Witness ==
    /\ pc = "wait_for_connection"
    /\ shell_result = "failed"
    /\ ~Failed(result)
    /\ reboot_failure = << >>
    /\ Len(call_log) = 2
    /\ call_log[1][2] = "ok"
    /\ call_log[2][1] = "win_shell"

\* C13: the failed and msg of the returned result are exactly those of the
\* last win_updates cycle, present or absent as that cycle had them, unless
\* the reboot failed, in which case failed is true and msg is the reboot
\* failure message.  Nothing of an earlier cycle's failed or msg remains.
C13_FailedAndMsgOfLastCycle ==
    Returned =>
        IF reboot_failure = << >>
        THEN /\ Has(result, "failed") = Has(last_raw, "failed")
             /\ Failed(result) = Failed(last_raw)
             /\ Has(result, "msg") = Has(last_raw, "msg")
             /\ Has(result, "msg") => result["msg"] = last_raw["msg"]
        ELSE /\ result["failed"] = TRUE
             /\ result["msg"] =
                  reboot_failed_msg(reboot_error(last_raw), reboot_failure)

\* the first cycle failed, the second did not and carried no message
C13_Witness ==
    /\ pc = "done"
    /\ ncycles = 2
    /\ previously_errored
    /\ reboot_failure = << >>
    /\ ~Has(result, "failed")
    /\ ~Has(result, "msg")

\* the plugins of one _reboot_server call, in the order of the code
RebootSteps == << "win_reboot", "win_shell", "wait_for_connection" >>
\* the call has run the first n of them, each once
RanSteps(log, n) ==
    Len(log) = n /\ \A i \in 1..n : log[i][1] = RebootSteps[i]
FailedStep(log) == Len(log) > 0 /\ log[Len(log)][2] = "failed"

\* C14: one _reboot_server call runs win_reboot, then the probe, then
\* wait_for_connection, each at most once; after a failed win_reboot
\* nothing more is run; the module is run again only after win_reboot and
\* wait_for_connection both succeeded; a failed plugin ends the call with
\* an error that carries that plugin's message.
C14_RebootStepsInOrder ==
    /\ \E n \in 0..3 : RanSteps(call_log, n)
    /\ \A i \in 1..Len(call_log) :
         call_log[i][2] = "failed" => i = Len(call_log)
    /\ pc \in {"elevate", "win_shell"} => RanSteps(call_log, 1)
    /\ pc = "wait_for_connection" => RanSteps(call_log, 2)
    /\ (pc = "rerun" /\ FlagSet(result)) =>
         (RanSteps(call_log, 3) /\ ~FailedStep(call_log))
    /\ FailedStep(call_log) =>
         /\ pc \in {"finish", "done"}
         /\ reboot_failure = call_log[Len(call_log)][3]
         /\ reboot_failure # << >>
    /\ reboot_failure # << >> => FailedStep(call_log)

\* win_reboot and the probe went through, wait_for_connection failed
C14_Witness ==
    /\ pc = "finish"
    /\ Len(call_log) = 3
    /\ FailedStep(call_log)
    /\ reboot_failure = << "connection refused" >>

\* C15: when the loop is entered with a failed cycle that asks for a
\* reboot, the failure guard decides first: if the cycle before it failed
\* too the loop breaks, no reboot is made and the result stays as it is;
\* if it is the first failure the reboot is made, and once _reboot_server
\* has returned the module is run again.
C15_GuardBeforeReboot ==
    [][ /\ (pc = "loop" /\ ~while_keyerror(result)
                        /\ Failed(result) /\ FlagSet(result))
            => IF consec_failed = 2
               THEN /\ pc' = "finish"
                    /\ nreboots' = nreboots
                    /\ call_log' = call_log
                    /\ result' = result
               ELSE pc' = "win_reboot"
        /\ (pc = "wait_for_connection" /\ pc' = "rerun" /\ consec_failed = 1)
            => ncycles' = ncycles
        /\ (pc = "rerun" /\ consec_failed = 1)
            => (pc' = "loop" /\ ncycles' = Sat(ncycles))
      ]_vars

\* the first cycle failed and was followed by a reboot, the second failed
\* as well, asked for a reboot and got none
C15_Witness ==
    /\ pc = "finish"
    /\ ncycles = 2
    /\ nreboots = 1
    /\ consec_failed = 2
    /\ Failed(result)
    /\ FlagSet(result)
    /\ reboot_failure = << >>

\* C16: while the probe runs the connection acts with become on, method
\* runas and user SYSTEM, whatever identity the caller had; a caller's own
\* become_user, other than none and root, is replaced as well.
C16_ProbeRunsAsSystem ==
    pc = "win_shell" =>
        /\ play_context.become = "True"
        /\ play_context.become_method = "runas"
        /\ play_context.become_user = "SYSTEM"

\* the caller came with become_user admin
C16_Witness ==
    /\ pc = "win_shell"
    /\ orig_become_user = "admin"
    /\ orig_identity.become_user = "admin"
    /\ play_context.become_user = "SYSTEM"

\* the cycle reports no update found, none installed and no reboot pending
NothingPending(r) ==
    /\ Has(r, "found_update_count") /\ r["found_update_count"] = 0
    /\ Has(r, "installed_update_count") /\ r["installed_update_count"] = 0
    /\ Has(r, "reboot_required") /\ r["reboot_required"] = FALSE

\* the loop of lines 199-247 was entered and has ended without an exception
LoopReturned ==
    /\ pc \in {"finish", "done"}
    /\ ncycles > 0
    /\ ~NoRebootHandling

\* C17: when the reboot loop has ended, the result has failed true or the
\* last cycle reported nothing pending: no update found, none installed, no
\* reboot required.
C17_FailedOrNothingPending ==
    LoopReturned => (Failed(result) \/ NothingPending(last_raw))

\* two cycles and a reboot, the second cycle clean
C17_Witness ==
    /\ LoopReturned
    /\ pc = "done"
    /\ ncycles = 2
    /\ nreboots = 1
    /\ ~Failed(result)
    /\ NothingPending(last_raw)

\* C18: a failed cycle with nothing pending ends the loop at once: the loop
\* test comes before the failure guard, so even a first failure gets no
\* further cycle and no reboot, and the failure is what is returned.
C18_FailedIdleEndsLoop ==
    [][ /\ (pc = "loop" /\ Failed(result) /\ NothingPending(result))
            => /\ pc' = "finish"
               /\ result' = result
               /\ ncycles' = ncycles
               /\ nreboots' = nreboots
               /\ previously_errored' = previously_errored
        /\ (pc = "finish" /\ Failed(result))
            => /\ pc' = "done"
               /\ Failed(result')
               /\ Has(result', "msg") = Has(result, "msg")
               /\ Has(result, "msg") => result'["msg"] = result["msg"]
      ]_vars

\* the only cycle failed with nothing pending
C18_Witness ==
    /\ LoopReturned
    /\ pc = "done"
    /\ ncycles = 1
    /\ consec_failed = 1
    /\ ~previously_errored
    /\ Failed(result)
    /\ NothingPending(last_raw)
    /\ reboot_failure = << >>

\* a win_updates run is in flight / a step of _reboot_server is in flight
WorkerInFlight == pc \in {"run_module", "rerun"}
RebootInFlight ==
    pc \in {"win_reboot", "elevate", "win_shell", "wait_for_connection"}

\* C19: cycles and reboots alternate: a reboot is started only from the loop
\* test that follows a finished cycle, and only when that cycle's result has
\* reboot_required; after _reboot_server has returned the next step is one
\* win_updates cycle, which leads back to the loop test; a step is part of
\* a cycle or of a reboot, never of both, and no reboot starts while a cycle
\* is running; there are never more reboots than cycles.
C19_CyclesAndRebootsAlternate ==
    [][ /\ nreboots <= ncycles /\ nreboots' <= ncycles'
        /\ pc' = "loop" => (WorkerInFlight /\ last_raw' = result')
        /\ (pc' = "win_reboot" /\ pc # "win_reboot")
            => (pc = "loop" /\ result = last_raw /\ FlagSet(last_raw))
        /\ nreboots' # nreboots
            => (pc = "win_reboot" /\ FlagSet(last_raw) /\ ncycles' = ncycles)
        /\ (pc = "wait_for_connection" /\ pc' # "finish") => pc' = "rerun"
        /\ pc = "rerun"
            => (pc' = "loop" /\ nreboots' = nreboots
                             /\ "win_updates" \in issued')
        /\ ncycles' # ncycles => (WorkerInFlight /\ nreboots' = nreboots)
        /\ RebootInFlight' => (pc = "loop" \/ RebootInFlight)
      ]_vars

\* three cycles with a reboot after the first and after the second
C19_Witness ==
    /\ pc = "loop"
    /\ ncycles = 3
    /\ nreboots = 2
    /\ RanSteps(call_log, 3)
    /\ ~FailedStep(call_log)

====
